---- MODULE Spec2Model ----
(***************************************************************************)
(* The todo backend: the cookie middleware of app.js, the bearer gate of   *)
(* middleware/auth, the five controller handlers under /api/todos and the  *)
(* five cookie-path handlers of app.js, over the Todo collection.          *)
(*                                                                         *)
(* A step is one store call together with the synchronous code that runs   *)
(* up to the next await.  A request's inputs are fixed when it arrives;    *)
(* since no step can read an input before the step that uses it, each      *)
(* input is drawn at the step that first reads it.                         *)
(***************************************************************************)
EXTENDS Integers, Sequences, FiniteSets, Bags, TLC

\* ---------------------------------------------------------------- bounds
NumUsers == 2
MaxTodos == 2
MaxInFlight == 2
MaxRequests == 3

\* ------------------------------------------------------ credential store
\* The ids of the User collection.  Ghost is an id that a correctly signed
\* token can carry but that no User document has.
Users == 1..NumUsers
Ghost == NumUsers + 1
\* req.user before any middleware has set it.
Anonymous == 0

\* ------------------------------------------------------------- tokens
\* A token: whether its signature verifies under JWT_SECRET, whether its
\* exp instant has passed, and the id claim it carries.
NoToken == [present |-> FALSE, sig |-> FALSE, exp |-> FALSE, id |-> Anonymous]
Tok(sig, exp, id) == [present |-> TRUE, sig |-> sig, exp |-> exp, id |-> id]
Tokens ==
  {Tok(FALSE, FALSE, 1), Tok(TRUE, TRUE, 1)}
    \cup {Tok(TRUE, FALSE, u) : u \in Users \cup {Ghost}}

\* jwt.decode in place of jwt.verify: the claims are read, nothing is checked.
jwtDecode(t) == [name |-> "ok", id |-> t.id]

\* jwt.verify(token, secret): the signature is checked before the expiry.
jwtVerify(t) ==
  IF ~t.sig THEN [name |-> "JsonWebTokenError", id |-> Anonymous]
  ELSE IF t.exp THEN [name |-> "TokenExpiredError", id |-> Anonymous]
  ELSE [name |-> "ok", id |-> t.id]

\* User.findById(id): the id when a User document has it, else null.
findById(id) == IF id \in Users THEN id ELSE Anonymous

\* The Authorization header, as the words between its spaces; the empty
\* sequence is a request without the header.
Headers ==
  {<< >>, <<"Bearer">>}
    \cup {<<"Bearer", t>> : t \in Tokens}
    \cup {<<"Basic", Tok(TRUE, FALSE, 1)>>}

\* authHeader && authHeader.split(' ')[1]
headerToken(h) == IF Len(h) >= 2 THEN h[2] ELSE NoToken

\* --------------------------------------------------------------- todos
Titles == {"a", "b"}
Descriptions == {"", "x"}
BodyFields == {"title", "description", "completed"}
\* A request body: `has` holds the keys that are present; an absent key
\* carries a fixed filler so that equal bodies are equal values.
Bodies ==
  {[has |-> h, title |-> t, description |-> d, completed |-> c] :
     h \in SUBSET BodyFields, t \in Titles \cup {""},
     d \in Descriptions, c \in BOOLEAN}
NormBody(b) ==
  [has |-> b.has,
   title |-> IF "title" \in b.has THEN b.title ELSE "",
   description |-> IF "description" \in b.has THEN b.description ELSE "",
   completed |-> IF "completed" \in b.has THEN b.completed ELSE FALSE]
BodyInputs == {NormBody(b) : b \in Bodies}

\* The ids a client can put in :id: 0 is a string that is no ObjectId; an
\* id from nextId on is an ObjectId that no document has yet.
MalformedId == 0
IdInputs == 0..MaxTodos

VARIABLES
  todos,      \* the Todo collection: _id -> document
  nextId,     \* the next ObjectId to be generated
  inflight,   \* bag of the requests waiting on a store call
  last,       \* the step just taken and the response it sent, if any
  served      \* the number of requests that have arrived

vars == <<todos, nextId, inflight, last, served>>

\* ------------------------------------------------------------ requests
NoDelta == [set |-> {}, title |-> "", description |-> "", completed |-> FALSE, read |-> FALSE]

Req(surface, pc, user, cleared, id, delta) ==
  [surface |-> surface, pc |-> pc, user |-> user, cleared |-> cleared,
   id |-> id, delta |-> delta]

Pending == BagToSet(inflight)
Take(r) == inflight (-) SetToBag({r})
Put(bag, r) == bag (+) SetToBag({r})

\* What a step shows: the handler that ran, the request it ran for (its
\* path, req.user, whether the token cookie was cleared, the :id and the
\* modified paths it holds) and the response sent, status 0 when none was.
Obs(act, r, id, status, error, body) ==
  [act |-> act, surface |-> r.surface, user |-> r.user, cleared |-> r.cleared,
   id |-> id, delta |-> r.delta, status |-> status, error |-> error,
   body |-> body]

NoStep ==
  [act |-> "init", surface |-> "none", user |-> Anonymous, cleared |-> FALSE,
   id |-> MalformedId, delta |-> NoDelta, status |-> 0, error |-> "",
   body |-> << >>]

\* res.status(s).json(...): the response leaves and the request is over.
Respond(r, act, id, status, error, body) ==
  /\ inflight' = Take(r)
  /\ served' = served
  /\ last' = Obs(act, r, id, status, error, body)

\* The handler awaits its next store call.
Continue(r, r2, act, id) ==
  /\ inflight' = Put(Take(r), r2)
  /\ served' = served
  /\ last' = Obs(act, r2, id, 0, "", << >>)

Init ==
  /\ todos = [i \in {} |-> NoDelta]
  /\ nextId = 1
  /\ inflight = EmptyBag
  /\ last = NoStep
  /\ served = 0

\* ------------------------------------------------- cookie middleware
\* The cookie's claims trusted without verification.
cookieUserUnverified(c) == IF c.present THEN findById(c.id) ELSE Anonymous

\* app.use(async (req, res, next) => ...): a token cookie that verifies and
\* names a User sets req.user; one that does not verify is cleared; the
\* request goes on in every case.
cookieUser(c) ==
  IF c.present /\ jwtVerify(c).name = "ok" THEN findById(jwtVerify(c).id)
  ELSE Anonymous
cookieCleared(c) == c.present /\ jwtVerify(c).name # "ok"

cookieJwt(surface, c) ==
  /\ BagCardinality(inflight) < MaxInFlight
  /\ served < MaxRequests
  /\ served' = served + 1
  /\ LET r == Req(surface, IF surface = "api" THEN "auth" ELSE "handler",
                  cookieUser(c), cookieCleared(c), MalformedId, NoDelta)
     IN /\ inflight' = Put(inflight, r)
        /\ last' = Obs("cookieJwt", r, MalformedId, 0, "", << >>)
  /\ UNCHANGED <<todos, nextId>>

\* ---------------------------------------------------- bearer gate
\* middleware/auth: 401 unless the header's second word verifies and names
\* a User; then req.user = decoded.
authError(h) ==
  LET t == headerToken(h) IN
  IF ~t.present THEN "No token provided, authorization denied"
  ELSE IF jwtVerify(t).name = "JsonWebTokenError" THEN "Invalid token"
  ELSE IF jwtVerify(t).name = "TokenExpiredError" THEN "Token expired"
  ELSE IF findById(jwtVerify(t).id) = Anonymous THEN "User not found"
  ELSE ""

auth(r, h) ==
  /\ r.pc = "auth"
  /\ IF authError(h) # ""
       THEN Respond(r, "auth", MalformedId, 401, authError(h), << >>)
       ELSE Continue(r, [r EXCEPT !.pc = "handler", !.user = jwtVerify(headerToken(h)).id],
                     "auth", MalformedId)
  /\ UNCHANGED <<todos, nextId>>

\* ------------------------------------------------------- Todo model
\* new Todo without the description passed on.
newTodoNoDescription(title, description, user, at) ==
  [title |-> title, description |-> "", read |-> FALSE,
   completed |-> FALSE, user |-> user, createdAt |-> at]

\* new Todo owned by the first User, whoever asks.
newTodoFirstUser(title, description, user, at) ==
  [title |-> title, description |-> description, read |-> FALSE,
   completed |-> FALSE, user |-> 1, createdAt |-> at]

\* new Todo({...}) under todoSchema, with the createdAt that timestamps
\* adds; createdAt is the position of the insert in the order of inserts.
newTodo(title, description, user, at) ==
  [title |-> title, description |-> description, read |-> FALSE,
   completed |-> FALSE, user |-> user, createdAt |-> at]

\* A stored document as a reply carries it.
Doc(store, id) ==
  [_id |-> id, title |-> store[id].title, description |-> store[id].description,
   read |-> store[id].read, completed |-> store[id].completed,
   user |-> store[id].user, createdAt |-> store[id].createdAt]

\* .sort({ createdAt: -1 }) over a set of ids of the store.
RECURSIVE sortByCreatedAtDesc(_, _)
sortByCreatedAtDesc(store, ids) ==
  IF ids = {} THEN << >>
  ELSE LET top == CHOOSE i \in ids :
                    \A j \in ids : store[j].createdAt <= store[i].createdAt
       IN <<Doc(store, top)>> \o sortByCreatedAtDesc(store, ids \ {top})

\* Todo.find({ user }).sort({ createdAt: -1 })
find(store, user) ==
  sortByCreatedAtDesc(store, {i \in DOMAIN store : store[i].user = user})

\* findOne with the owner left out of the query.
findOneAnyOwner(store, id, user) ==
  IF id = MalformedId THEN "CastError"
  ELSE IF id \in DOMAIN store THEN "found"
  ELSE "null"

\* Todo.findOne({ _id: id, user }) and the query of findOneAndDelete: a
\* CastError for an id that is no ObjectId, null when no document has both
\* the id and the owner.
findOne(store, id, user) ==
  IF id = MalformedId THEN "CastError"
  ELSE IF id \in DOMAIN store /\ store[id].user = user THEN "found"
  ELSE "null"

\* todo.save() of a new document: insertOne.
insert(store, id, doc) ==
  [i \in DOMAIN store \cup {id} |-> IF i = id THEN doc ELSE store[i]]

\* A missing key written as its default instead of being skipped.
modifiedPathsDefaults(doc, body) ==
  LET val(f) == IF f \in body.has THEN body[f]
                ELSE IF f = "completed" THEN FALSE ELSE ""
      set == {f \in BodyFields : val(f) # doc[f]}
  IN [set |-> set,
      title |-> IF "title" \in set THEN val("title") ELSE "",
      description |-> IF "description" \in set THEN val("description") ELSE "",
      completed |-> IF "completed" \in set THEN val("completed") ELSE FALSE,
      read |-> FALSE]

\* The paths that `if (x !== undefined) todo.x = x` marks modified on a
\* loaded document: a path set to the value it already has stays clean.
modifiedPaths(doc, body) ==
  LET set == {f \in body.has : body[f] # doc[f]} IN
  [set |-> set,
   title |-> IF "title" \in set THEN body.title ELSE "",
   description |-> IF "description" \in set THEN body.description ELSE "",
   completed |-> IF "completed" \in set THEN body.completed ELSE FALSE,
   read |-> FALSE]

\* todo.read = !todo.read on a loaded document.
readPathToggle(doc) ==
  [set |-> {"read"}, title |-> "", description |-> "", completed |-> FALSE,
   read |-> ~doc.read]

\* todo.read = true on a loaded document.
readPath(doc) ==
  [set |-> IF doc.read THEN {} ELSE {"read"},
   title |-> "", description |-> "", completed |-> FALSE,
   read |-> ~doc.read]

\* A schema whose title is not required.
validatesAnything(delta) == TRUE

\* The schema's validation before a save: title is required, and the
\* required validator of a String path rejects the empty string.
validates(delta) == ~("title" \in delta.set /\ delta.title = "")

\* A save that upserts: a document that is gone is written back.
saveUpsert(store, id, delta) ==
  [i \in DOMAIN store \cup {id} |->
     LET old == IF i \in DOMAIN store THEN store[i]
                ELSE [title |-> "a", description |-> "", read |-> FALSE,
                      completed |-> FALSE, user |-> 1, createdAt |-> i]
     IN IF i # id THEN old
        ELSE [title |-> IF "title" \in delta.set THEN delta.title ELSE old.title,
              description |-> IF "description" \in delta.set
                                THEN delta.description ELSE old.description,
              completed |-> IF "completed" \in delta.set
                              THEN delta.completed ELSE old.completed,
              read |-> IF "read" \in delta.set THEN delta.read ELSE old.read,
              user |-> old.user, createdAt |-> old.createdAt]]

\* todo.save() of a loaded document: updateOne({ _id }, { $set: modified
\* paths }), which matches nothing once the document is gone.
save(store, id, delta) ==
  IF id \notin DOMAIN store THEN store
  ELSE [store EXCEPT
          ![id] = [title |-> IF "title" \in delta.set THEN delta.title ELSE @.title,
                   description |-> IF "description" \in delta.set
                                     THEN delta.description ELSE @.description,
                   completed |-> IF "completed" \in delta.set
                                   THEN delta.completed ELSE @.completed,
                   read |-> IF "read" \in delta.set THEN delta.read ELSE @.read,
                   user |-> @.user, createdAt |-> @.createdAt]]

\* Todo.findOneAndDelete's removal.
remove(store, id) == [i \in DOMAIN store \ {id} |-> store[i]]

\* The catch block of a by-id handler: the controller answers a CastError
\* with 400, the cookie-path handlers answer every error with 500.
castStatus(surface) == IF surface = "api" THEN 400 ELSE 500
castError(surface) == IF surface = "api" THEN "Invalid todo ID" ELSE "Server error"

\* ---------------------------------------------- handler bodies (both paths)
List(r) ==
  /\ Respond(r, "list", MalformedId, 200, "", find(todos, r.user))
  /\ UNCHANGED <<todos, nextId>>

Create(r, body) ==
  IF ~("title" \in body.has) \/ body.title = ""
    THEN /\ Respond(r, "create", MalformedId, 400, "Title is required", << >>)
         /\ UNCHANGED <<todos, nextId>>
    ELSE /\ nextId <= MaxTodos
         /\ todos' = insert(todos, nextId,
                            newTodo(body.title,
                                    IF "description" \in body.has
                                      THEN body.description ELSE "",
                                    r.user, nextId))
         /\ nextId' = nextId + 1
         /\ Respond(r, "create", nextId, 201, "", <<Doc(todos', nextId)>>)

FindThen(r, act, id, next, delta) ==
  /\ CASE findOne(todos, id, r.user) = "CastError" ->
            Respond(r, act, id, castStatus(r.surface), castError(r.surface), << >>)
       [] findOne(todos, id, r.user) = "null" ->
            Respond(r, act, id, 404, "Todo not found", << >>)
       [] OTHER ->
            Continue(r, [r EXCEPT !.pc = next, !.id = id, !.delta = delta], act, id)
  /\ UNCHANGED <<todos, nextId>>

Update(r, id, body) ==
  FindThen(r, "update", id, "updateSave",
           IF findOne(todos, id, r.user) = "found"
             THEN modifiedPaths(todos[id], body) ELSE NoDelta)

MarkRead(r, id) ==
  FindThen(r, "markRead", id, "markReadSave",
           IF findOne(todos, id, r.user) = "found"
             THEN readPath(todos[id]) ELSE NoDelta)

\* await todo.save() and the reply after it.  A save whose document is
\* gone writes nothing; whether it then resolves or rejects with
\* DocumentNotFoundError depends on the mongoose release in use.
Save(r, act, rejects) ==
  /\ IF ~validates(r.delta)
       THEN /\ Respond(r, act, r.id, 500, "Server error", << >>)
            /\ todos' = todos
       ELSE IF r.id \notin DOMAIN todos /\ rejects
         THEN /\ Respond(r, act, r.id, 500, "Server error", << >>)
              /\ todos' = todos
         ELSE /\ Respond(r, act, r.id, 200, "", << >>)
              /\ todos' = save(todos, r.id, r.delta)
  /\ UNCHANGED nextId

Delete(r, id) ==
  /\ CASE findOne(todos, id, r.user) = "CastError" ->
            /\ Respond(r, "delete", id, castStatus(r.surface), castError(r.surface), << >>)
            /\ todos' = todos
       [] findOne(todos, id, r.user) = "null" ->
            /\ Respond(r, "delete", id, 404, "Todo not found", << >>)
            /\ todos' = todos
       [] OTHER ->
            /\ Respond(r, "delete", id, 200, "", << >>)
            /\ todos' = remove(todos, id)
  /\ UNCHANGED nextId

\* if (!req.user) return res.status(401).json({ error: 'Unauthorized' })
Unauthorized(r, act) ==
  /\ Respond(r, act, MalformedId, 401, "Unauthorized", << >>)
  /\ UNCHANGED <<todos, nextId>>

\* --------------------------------------------- /api/todos (controller)
AtApi(r, pc) == r.surface = "api" /\ r.pc = pc

getTodos(r) == AtApi(r, "handler") /\ List(r)
createTodo(r, body) == AtApi(r, "handler") /\ Create(r, body)
updateTodo(r, id, body) == AtApi(r, "handler") /\ Update(r, id, body)
updateTodoSave(r, rejects) == AtApi(r, "updateSave") /\ Save(r, "updateSave", rejects)
deleteTodo(r, id) == AtApi(r, "handler") /\ Delete(r, id)
markAsRead(r, id) == AtApi(r, "handler") /\ MarkRead(r, id)
markAsReadSave(r, rejects) == AtApi(r, "markReadSave") /\ Save(r, "markReadSave", rejects)

\* ------------------------------------------------ cookie path (app.js)
AtWeb(r, pc) == r.surface = "web" /\ r.pc = pc

\* app.get('/'): the list page, or a redirect to /login without a user.
index(r) ==
  /\ AtWeb(r, "handler")
  /\ IF r.user = Anonymous
       THEN /\ Respond(r, "list", MalformedId, 302, "/login", << >>)
            /\ UNCHANGED <<todos, nextId>>
       ELSE List(r)

postTodos(r, body) ==
  /\ AtWeb(r, "handler")
  /\ IF r.user = Anonymous THEN Unauthorized(r, "create") ELSE Create(r, body)

putTodos(r, id, body) ==
  /\ AtWeb(r, "handler")
  /\ IF r.user = Anonymous THEN Unauthorized(r, "update") ELSE Update(r, id, body)

putTodosSave(r, rejects) == AtWeb(r, "updateSave") /\ Save(r, "updateSave", rejects)

deleteTodos(r, id) ==
  /\ AtWeb(r, "handler")
  /\ IF r.user = Anonymous THEN Unauthorized(r, "delete") ELSE Delete(r, id)

patchRead(r, id) ==
  /\ AtWeb(r, "handler")
  /\ IF r.user = Anonymous THEN Unauthorized(r, "markRead") ELSE MarkRead(r, id)

patchReadSave(r, rejects) == AtWeb(r, "markReadSave") /\ Save(r, "markReadSave", rejects)

\* ----------------------------------------------------------------- Next
Next ==
  \/ \E s \in {"api", "web"}, c \in Tokens \cup {NoToken} : cookieJwt(s, c)
  \/ \E r \in Pending, h \in Headers : auth(r, h)
  \/ \E r \in Pending : getTodos(r)
  \/ \E r \in Pending, b \in BodyInputs : createTodo(r, b)
  \/ \E r \in Pending, i \in IdInputs, b \in BodyInputs : updateTodo(r, i, b)
  \/ \E r \in Pending, x \in BOOLEAN : updateTodoSave(r, x)
  \/ \E r \in Pending, i \in IdInputs : deleteTodo(r, i)
  \/ \E r \in Pending, i \in IdInputs : markAsRead(r, i)
  \/ \E r \in Pending, x \in BOOLEAN : markAsReadSave(r, x)
  \/ \E r \in Pending : index(r)
  \/ \E r \in Pending, b \in BodyInputs : postTodos(r, b)
  \/ \E r \in Pending, i \in IdInputs, b \in BodyInputs : putTodos(r, i, b)
  \/ \E r \in Pending, x \in BOOLEAN : putTodosSave(r, x)
  \/ \E r \in Pending, i \in IdInputs : deleteTodos(r, i)
  \/ \E r \in Pending, i \in IdInputs : patchRead(r, i)
  \/ \E r \in Pending, x \in BOOLEAN : patchReadSave(r, x)

Spec == Init /\ [][Next]_vars

\* ================================================================ claims
ById == {"update", "delete", "markRead"}
SavePcs == {"updateSave", "markReadSave"}
Reply(l) == <<l.status, l.error, l.body>>
NotFoundReply == <<404, "Todo not found", << >> >>
\* The ids that have been given to a document.
Created == 1..(nextId - 1)

\* What C1 asks of every step.
OwnerIsolationStep ==
  /\ (last'.act \in ById /\ last'.user \in Users /\ last'.id \in DOMAIN todos
        /\ todos[last'.id].user # last'.user)
       => (Reply(last') = NotFoundReply /\ todos' = todos)
  /\ (last'.act \in ById /\ last'.user \in Users /\ last'.id # MalformedId
        /\ last'.id \notin DOMAIN todos)
       => (Reply(last') = NotFoundReply /\ todos' = todos)
  /\ \A id \in DOMAIN todos :
       todos[id].user # last'.user
         => (id \in DOMAIN todos' /\ todos'[id] = todos[id])
  /\ \A r \in BagToSet(inflight') :
       (r.pc \in SavePcs /\ r.id \in DOMAIN todos') => todos'[r.id].user = r.user
  /\ last'.act = "list"
       => \A k \in 1..Len(last'.body) : last'.body[k].user = last'.user

\* C1: owner isolation.  A by-id step (Update, Delete, MarkRead) taken with
\* user B's identity on the id of a Todo that another user owns answers 404
\* 'Todo not found', the same reply as for an id that no document has, and
\* changes nothing; no step taken with an identity other than a Todo's
\* owner changes that Todo; no pending save targets a Todo of another
\* user; and a List reply holds only Todos of the caller.
OwnerIsolation == [][OwnerIsolationStep]_vars

\* Witness of C1: a user has just asked for a by-id operation on a Todo
\* that another user owns, and got 404.
OwnerIsolationWitness ==
  /\ last.act \in ById /\ last.user \in Users
  /\ last.id \in DOMAIN todos /\ todos[last.id].user # last.user
  /\ last.status = 404

\* What C2 asks of every step.
GoodBearer(h) ==
  /\ Len(h) >= 2
  /\ h[2].present /\ h[2].sig /\ ~h[2].exp /\ h[2].id \in Users
BearerGateStep ==
  /\ last'.act = "auth"
       => \A r \in Pending, h \in Headers :
            (auth(r, h) /\ ~GoodBearer(h))
              => /\ last'.status = 401
                 /\ inflight' = Take(r)
                 /\ todos' = todos /\ nextId' = nextId
  /\ (last'.surface = "api" /\ last'.act \notin {"cookieJwt", "auth"})
       => last'.user \in Users
  /\ \A r \in BagToSet(inflight') :
       (r.surface = "api" /\ r.pc # "auth") => r.user \in Users

CreateStep ==
  (last'.act = "create" /\ last'.status = 201)
    => \A r \in Pending, b \in BodyInputs :
         (createTodo(r, b) \/ postTodos(r, b))
           => LET n == last'.id IN
              /\ "title" \in b.has /\ b.title # ""
              /\ n \notin DOMAIN todos
              /\ DOMAIN todos' = DOMAIN todos \cup {n}
              /\ \A i \in DOMAIN todos : todos'[i] = todos[i]
              /\ find(todos', r.user) = <<Doc(todos', n)>> \o find(todos, r.user)
              /\ last'.body = <<Doc(todos', n)>>
              /\ todos'[n].title = b.title
              /\ todos'[n].description =
                   (IF "description" \in b.has THEN b.description ELSE "")
              /\ todos'[n].read = FALSE /\ todos'[n].completed = FALSE
              /\ todos'[n].user = r.user

\* C3: Create then List.  A Create that succeeds was given a non-empty
\* title, adds exactly one document, and the caller's List after it is the
\* new record followed by the caller's List before it; the record has the
\* given title, the given description or '' when none was given,
\* read = false, completed = false and the caller as its owner.
CreateThenList == [][CreateStep]_vars

\* Witness of C3: a Create without a description has just succeeded for a
\* user who already had a Todo.
CreateThenListWitness ==
  /\ last.act = "create" /\ last.status = 201
  /\ Len(find(todos, last.user)) = 2
  /\ find(todos, last.user)[1] = last.body[1]
  /\ last.body[1].description = ""

\* What C4 asks of every step.
TodoFields == {"title", "description", "completed", "read", "user", "createdAt"}
PartialUpdateStep ==
  /\ (last'.act = "update" /\ last'.status = 0)
       => /\ todos' = todos
          /\ \A r \in Pending, b \in BodyInputs :
               (updateTodo(r, last'.id, b) \/ putTodos(r, last'.id, b))
                 => /\ last'.delta.set \subseteq b.has
                    /\ \A f \in last'.delta.set : last'.delta[f] = b[f]
                    /\ \A f \in b.has \ last'.delta.set : todos[last'.id][f] = b[f]
  /\ last'.act = "updateSave"
       => /\ DOMAIN todos' = DOMAIN todos
          /\ \A x \in DOMAIN todos \ {last'.id} : todos'[x] = todos[x]
          /\ last'.id \in DOMAIN todos
               => /\ \A f \in TodoFields \ last'.delta.set :
                       todos'[last'.id][f] = todos[last'.id][f]
                  /\ last'.status = 200
                       => \A f \in last'.delta.set :
                            todos'[last'.id][f] = last'.delta[f]

\* C4: partial update.  The paths an Update marks modified are among the
\* keys present in its body and carry the body's values; its save leaves
\* every other Todo as it was and, in the target, changes none of title,
\* description and completed that is not modified, nor read, owner or
\* createdAt; a modified path gets its value.
PartialUpdate == [][PartialUpdateStep]_vars

\* Witness of C4: an Update whose only modified path is completed = true
\* has just been saved, with a second Todo in the store.
PartialUpdateWitness ==
  /\ last.act = "updateSave" /\ last.status = 200
  /\ last.delta.set = {"completed"} /\ last.delta.completed
  /\ Cardinality(DOMAIN todos) = 2
  /\ todos[last.id].completed

\* What C5 asks of every step.
DeletedStep ==
  /\ DOMAIN todos' \subseteq 1..(nextId' - 1)
  /\ \A id \in Created : id \notin DOMAIN todos => id \notin DOMAIN todos'
  /\ (last'.act = "delete" /\ last'.user \in Users /\ last'.id \in Created
        /\ last'.id \notin DOMAIN todos)
       => Reply(last') = NotFoundReply
  /\ last'.act = "list"
       => \A k \in 1..Len(last'.body) : last'.body[k]._id \in DOMAIN todos'

\* C5: a deleted id never reappears.  An id that was given to a document
\* and is no longer in the store is never in the store again, whatever
\* save arrives for it; a Delete of it answers 404; and no List reply
\* holds a document that is not in the store.
DeletedNeverReappears == [][DeletedStep]_vars

\* Witness of C5: an Update or MarkRead that had looked its Todo up before
\* the Delete has just run its save after it, and modified paths to write.
DeletedNeverReappearsWitness ==
  /\ last.act \in SavePcs
  /\ last.id \in Created /\ last.id \notin DOMAIN todos
  /\ last.delta.set # {}
  /\ last.status = 200

\* What C6 asks of every step.
MarkReadStep ==
  /\ (last'.act = "markRead" /\ last'.id \in DOMAIN todos
        /\ todos[last'.id].user = last'.user)
       => (last'.status = 0 /\ todos' = todos)
  /\ (last'.act = "markReadSave" /\ last'.id \in DOMAIN todos)
       => /\ last'.status = 200
          /\ todos' = [todos EXCEPT ![last'.id].read = TRUE]
          /\ todos[last'.id].read => todos' = todos

\* C6: MarkRead is idempotent.  A MarkRead on a Todo of the caller goes on
\* to its save whatever read was; the save of a MarkRead whose Todo is in
\* the store answers 200 and leaves the store as it was except that the
\* Todo's read is true, so that a MarkRead on a Todo already read changes
\* nothing.
MarkReadIdempotent == [][MarkReadStep]_vars

\* Witness of C6: a MarkRead that found its Todo already read has just
\* been saved and answered 200.
MarkReadIdempotentWitness ==
  /\ last.act = "markReadSave" /\ last.status = 200
  /\ last.delta.set = {}
  /\ last.id \in DOMAIN todos /\ todos[last.id].read

\* What C7 asks of every step.
BadCookie(c) == c.present /\ (~c.sig \/ c.exp)
Mutating == {"create", "update", "delete", "markRead"}
CookieGateStep ==
  /\ last'.act = "cookieJwt"
       => \A s \in {"api", "web"}, c \in Tokens :
            (cookieJwt(s, c) /\ BadCookie(c))
              => /\ last'.status = 0
                 /\ last'.user = Anonymous /\ last'.cleared
                 /\ inflight' =
                      Put(inflight,
                          Req(s, IF s = "api" THEN "auth" ELSE "handler",
                              Anonymous, TRUE, MalformedId, NoDelta))
                 /\ todos' = todos /\ nextId' = nextId
  /\ \A r \in BagToSet(inflight') :
       (r.surface = "web" /\ r.cleared) => (r.user = Anonymous /\ r.pc = "handler")
  /\ (last'.surface = "web" /\ last'.user = Anonymous /\ last'.act \in Mutating)
       => /\ Reply(last') = <<401, "Unauthorized", << >> >>
          /\ todos' = todos /\ nextId' = nextId
  /\ (last'.surface = "web" /\ last'.user = Anonymous /\ last'.act = "list")
       => /\ Reply(last') = <<302, "/login", << >> >>
          /\ todos' = todos /\ nextId' = nextId

\* C7: the cookie gate fails open.  A request whose token cookie does not
\* verify (bad signature or expired) is never answered by the cookie
\* middleware: the cookie is cleared and the request goes on with no
\* req.user, and stays so; each cookie-path handler under /todos then
\* answers it 401 'Unauthorized' and the list page redirects it to /login,
\* with the store untouched.
CookieGateFailsOpen == [][CookieGateStep]_vars

\* Witness of C7: a cookie-path handler under /todos has just answered 401
\* to a request whose token cookie the middleware had cleared, with a Todo
\* in the store.
CookieGateWitness ==
  /\ last.surface = "web" /\ last.cleared /\ last.act \in Mutating
  /\ last.status = 401
  /\ DOMAIN todos # {}

\* What C8 asks of every step.
OwnerStep ==
  /\ \A id \in DOMAIN todos' : todos'[id].user \in Users
  /\ \A id \in DOMAIN todos' \ DOMAIN todos :
       last'.act = "create" /\ last'.id = id /\ todos'[id].user = last'.user
  /\ \A id \in DOMAIN todos' \cap DOMAIN todos : todos'[id].user = todos[id].user

\* C8: one owner, fixed at creation.  Every stored Todo is owned by one
\* User; a document enters the store only by a Create and is owned by the
\* identity of that request; and no step changes the owner of a document
\* that stays in the store.
OwnerNeverChanges == [][OwnerStep]_vars

\* Witness of C8: a Todo that the second User created has just been
\* written by an Update.
OwnerNeverChangesWitness ==
  /\ last.act = "updateSave" /\ last.status = 200 /\ last.delta.set # {}
  /\ last.id \in DOMAIN todos /\ todos[last.id].user = 2

\* What C9 asks of every step.
TitleStep ==
  /\ \A id \in DOMAIN todos' : todos'[id].title \in Titles
  /\ last'.act = "create"
       => \A r \in Pending, b \in BodyInputs :
            ((createTodo(r, b) \/ postTodos(r, b)) /\ r.user # Anonymous
               /\ ("title" \notin b.has \/ b.title = ""))
              => /\ Reply(last') = <<400, "Title is required", << >> >>
                 /\ todos' = todos /\ nextId' = nextId
  /\ (last'.act = "updateSave" /\ "title" \in last'.delta.set
        /\ last'.delta.title = "")
       => (last'.status = 500 /\ todos' = todos)

\* C9: no stored Todo has an empty title.  A Create whose title is missing
\* or empty answers 400 'Title is required' and adds nothing; and after
\* every step every stored title is non-empty, an Update that carries
\* title '' being refused at its save with the store unchanged.
TitleNeverEmpty == [][TitleStep]_vars

\* Witness of C9: the save of an Update that carried title '' for a Todo in
\* the store has just been refused.
TitleNeverEmptyWitness ==
  /\ last.act = "updateSave" /\ last.status = 500
  /\ "title" \in last.delta.set /\ last.delta.title = ""
  /\ last.id \in DOMAIN todos

\* What C10 asks of every step.
AtomicStep ==
  \A r \in Pending :
    (r.pc \in SavePcs /\ r.id \in DOMAIN todos
       /\ CopiesIn(r, inflight') >= CopiesIn(r, inflight))
      => (r.id \in DOMAIN todos' /\ todos'[r.id] = todos[r.id])

\* C10: lookup and write as one atomic step.  While a request is between
\* its lookup of a Todo and its save, no step of another request changes
\* or removes that Todo.
AtomicLookupAndWrite == [][AtomicStep]_vars
====
